---- MODULE Spec2Model ----
(***************************************************************************)
(* Model of zokrates_ast::ir::serialize: the binary container of an IR     *)
(* program (magic, version, ProgHeader, four sections), the streaming      *)
(* writer ProgIterator::serialize, and the reader ProgHeader::read /       *)
(* ProgIterator::read with its lazy statement iterator; and of             *)
(* zokrates_ast::common::Parameter with its derived comparisons.           *)
(*                                                                         *)
(* Specifications: SerializeSpec (the writer alone), Spec (the writer,     *)
(* then a read of its file or of that file with a changed magic or         *)
(* version), RetagSpec / CorruptSpec / StreamSpec (a read of the file with *)
(* other section tags, a damaged eager section, a damaged statement        *)
(* record), IoSpec (the writer on a sink whose writes fail) and            *)
(* ParameterSpec (two parameters compared).                                *)
(*                                                                         *)
(* The sink is a byte vector with a cursor (std::io::Cursor<Vec<u8>>).     *)
(* Bytes are naturals 0..255.  Stream positions are 0-based as in Rust;    *)
(* TLA+ sequences are 1-based, so byte k of the sink is w[k+1].            *)
(***************************************************************************)
EXTENDS Integers, Sequences, FiniteSets, TLC

\* Longest statement sequence of an input program.
MaxStmts == 2

(***************************************************************************)
(* Format constants and the section type enumeration.                      *)
(***************************************************************************)
ZOKRATES_MAGIC == <<90, 79, 75, 0>>
FILE_VERSION == <<3, 0, 0, 0>>

SectionType_Parameters == 1
SectionType_Constraints == 2
SectionType_Solvers == 3
SectionType_Modules == 4

\* Mutant: tag 0 is taken for a section type.
SectionTypeValid_zero(value) == value \in {0, 1, 2, 3, 4}

\* SectionType::try_from: the tags that name a section type.
SectionTypeValid(value) == value \in {1, 2, 3, 4}

\* Section::new(ty): offset and length start at zero.
Section_new(ty) == [ty |-> ty, offset |-> 0, length |-> 0]

\* A Section local that has not been built yet.
NoSection == [ty |-> 0, offset |-> 0, length |-> 0]

(***************************************************************************)
(* Input domains.                                                          *)
(***************************************************************************)
\* The field types a program can be instantiated with.
Curves == {"bn128", "bls12_381"}

\* T::id(): the 4-byte curve identity of a field type.
CurveId(T) == IF T = "bn128" THEN <<98, 110, 49, 50>> ELSE <<98, 108, 115, 49>>

\* Variable identifiers.
Vars == {1, 2}

\* Solver values, named by the one-character text they encode to ('A', 'B').
SolverNames == {65, 66}
SolverVal(n) == [tag |-> "Val", v |-> n]
SolverRef(i) == [tag |-> "Ref", v |-> i]

\* Option<Span>: None, or Some(span).
None == <<>>
Some(x) == <<x>>

\* Parameter { span, id, private }.
Parameter(span, id, private) == [span |-> span, id |-> id, private |-> private]

\* Parameter::new, Parameter::public, Parameter::private: no span.
Parameter_new(v, private) == Parameter(None, v, private)
Parameter_public(v) == Parameter_new(v, FALSE)
Parameter_private(v) == Parameter_new(v, TRUE)

\* WithSpan for Parameter.
Parameter_span(self, span) == [self EXCEPT !.span = span]
Parameter_get_span(self) == self.span

\* The spans a Parameter can carry.
Spans == {None, Some(1), Some(2)}

\* Mutant: equality over every field, as a plain derive gives it.
ParameterEq_allfields(p, q) == p.span = q.span /\ p.id = q.id /\ p.private = q.private

\* Parameter equality: span is ignored.
ParameterEq(p, q) == p.id = q.id /\ p.private = q.private

\* Parameter hashing: what is fed to the hasher, field by field; span is
\* ignored.
ParameterHash(p) == <<p.id, p.private>>

\* Parameter::partial_cmp: the fields in declaration order, the first that
\* differs decides (false < true); span is ignored.
ParameterPartialCmp(p, q) ==
  IF p.id # q.id THEN Some(IF p.id < q.id THEN "Less" ELSE "Greater")
  ELSE IF p.private # q.private THEN Some(IF q.private THEN "Less" ELSE "Greater")
  ELSE Some("Equal")

\* The argument lists of the input programs.
ArgumentLists ==
  { <<>>,
    <<Parameter(None, 1, FALSE)>>,
    <<Parameter(Some(1), 1, TRUE), Parameter(None, 2, FALSE)>> }

\* Statement variants.  A constraint relates an input variable and an output
\* variable; a directive runs a solver to produce an output variable; a log
\* statement stands for every other variant.
Constraint(i, o) == [kind |-> "Constraint", input |-> i, output |-> o]
Directive(s, o) == [kind |-> "Directive", solver |-> s, output |-> o]
Log == [kind |-> "Log"]

InputStatements ==
  {Constraint(i, o) : i \in Vars, o \in Vars}
    \cup {Directive(SolverVal(n), o) : n \in SolverNames, o \in Vars}
    \cup {Log}

SeqsUpTo(S, n) == UNION {[1..k -> S] : k \in 0..n}

\* ModuleMap: module-identity hash -> module id.
EmptyModuleMap == [h \in {} |-> 0]
ModuleMaps == {EmptyModuleMap, [h \in {7, 9} |-> h - 6]}

ReturnCounts == {0, 1}

\* Alignment of u64 on the build target (4 on i686, 8 on x86_64 / wasm32).
U64Aligns == {4, 8}

(***************************************************************************)
(* Byte helpers.                                                           *)
(***************************************************************************)
Max(a, b) == IF a >= b THEN a ELSE b

RoundUp(n, a) == ((n + a - 1) \div a) * a

Zeros(n) == [i \in 1..n |-> 0]

\* write_u32::<LittleEndian> / write_u64::<LittleEndian>
RECURSIVE LEBytes(_, _)
LEBytes(n, k) == IF k = 0 THEN <<>> ELSE <<n % 256>> \o LEBytes(n \div 256, k - 1)
U32LE(n) == LEBytes(n, 4)
U64LE(n) == LEBytes(n, 8)

\* `as u32`: the low 32 bits.
AsU32(n) == (n % 65536) + 65536 * ((n \div 65536) % 65536)

\* Cursor<Vec<u8>>::write_all at position pos: overwrite, extending the vector.
WriteAll(buf, pos, bytes) ==
  [i \in 1..Max(Len(buf), pos + Len(bytes)) |->
     IF i > pos /\ i <= pos + Len(bytes) THEN bytes[i - pos] ELSE buf[i]]

\* The n bytes at position pos.
Slice(buf, pos, n) == [i \in 1..n |-> buf[pos + i]]

\* The byte at position pos; -1 at or past the end.
ByteAt(buf, pos) == IF pos >= 0 /\ pos < Len(buf) THEN buf[pos + 1] ELSE -1

(***************************************************************************)
(* The structured encoder (serde_cbor::to_writer), CBOR item by item:      *)
(* small unsigned 0x00+n, text 0x60+len, array 0x80+n, map 0xa0+n,         *)
(* false/true/null 0xf4/0xf5/0xf6.  Enum variants are externally tagged    *)
(* {name: payload}; names are abbreviated to one character.                *)
(***************************************************************************)
EncUint(n) == <<n>>
EncText1(c) == <<97, c>>
EncBool(b) == IF b THEN <<245>> ELSE <<244>>
EncOption(x) == IF x = None THEN <<246>> ELSE EncUint(x[1])

EncParameter(p) == <<131>> \o EncOption(p.span) \o EncUint(p.id) \o EncBool(p.private)

RECURSIVE EncParameters(_)
EncParameters(ps) ==
  IF ps = <<>> THEN <<>> ELSE EncParameter(Head(ps)) \o EncParameters(Tail(ps))

\* Vec<Parameter>
EncArguments(ps) == <<128 + Len(ps)>> \o EncParameters(ps)

\* Solver: a unit variant is its name; Ref(i) is {"R": i}.
EncSolver(s) ==
  IF s.tag = "Ref" THEN <<161>> \o EncText1(82) \o EncUint(s.v) ELSE EncText1(s.v)

RECURSIVE EncSolverItems(_)
EncSolverItems(ss) ==
  IF ss = <<>> THEN <<>> ELSE EncSolver(Head(ss)) \o EncSolverItems(Tail(ss))

\* Vec<Solver>
EncSolvers(ss) == <<128 + Len(ss)>> \o EncSolverItems(ss)

VariantChar(kind) ==
  CASE kind = "Constraint" -> 67
    [] kind = "Directive" -> 68
    [] kind = "Log" -> 76

EncStatement(s) ==
  <<161>> \o EncText1(VariantChar(s.kind)) \o
    (CASE s.kind = "Constraint" -> <<130>> \o EncUint(s.input) \o EncUint(s.output)
       [] s.kind = "Directive" -> <<130>> \o EncSolver(s.solver) \o EncUint(s.output)
       [] s.kind = "Log" -> <<128>>)

RECURSIVE EncStatements(_)
EncStatements(ss) ==
  IF ss = <<>> THEN <<>> ELSE EncStatement(Head(ss)) \o EncStatements(Tail(ss))

Min(S) == CHOOSE x \in S : \A y \in S : x <= y

RECURSIVE EncModuleEntries(_, _)
EncModuleEntries(m, keys) ==
  IF keys = {} THEN <<>>
  ELSE LET k == Min(keys)
       IN EncUint(k) \o EncUint(m[k]) \o EncModuleEntries(m, keys \ {k})

\* ModuleMap: a map in ascending key order.
EncModuleMap(m) == <<160 + Cardinality(DOMAIN m)>> \o EncModuleEntries(m, DOMAIN m)

(***************************************************************************)
(* The structured decoder (serde_cbor::Deserializer), the inverse of the   *)
(* encoder item by item.  A decode returns [ok, val, pos]: whether an item *)
(* of the wanted type starts at the position, its value, and the position  *)
(* after it.  Nothing bounds a decode by a section's length.               *)
(***************************************************************************)
DecFail == [ok |-> FALSE, val |-> <<>>, pos |-> -1]
DecOk(v, p) == [ok |-> TRUE, val |-> v, pos |-> p]

DecUint(buf, pos) ==
  LET b == ByteAt(buf, pos)
  IN IF b >= 0 /\ b < 24 THEN DecOk(b, pos + 1) ELSE DecFail

DecText1(buf, pos) ==
  IF ByteAt(buf, pos) = 97 /\ ByteAt(buf, pos + 1) >= 0
  THEN DecOk(ByteAt(buf, pos + 1), pos + 2)
  ELSE DecFail

DecBool(buf, pos) ==
  LET b == ByteAt(buf, pos)
  IN IF b = 245 THEN DecOk(TRUE, pos + 1)
     ELSE IF b = 244 THEN DecOk(FALSE, pos + 1)
     ELSE DecFail

DecOption(buf, pos) ==
  IF ByteAt(buf, pos) = 246 THEN DecOk(None, pos + 1)
  ELSE LET u == DecUint(buf, pos)
       IN IF u.ok THEN DecOk(Some(u.val), u.pos) ELSE DecFail

DecParameter(buf, pos) ==
  IF ByteAt(buf, pos) # 131 THEN DecFail
  ELSE LET span == DecOption(buf, pos + 1)
       IN IF ~span.ok THEN DecFail
          ELSE LET id == DecUint(buf, span.pos)
               IN IF ~id.ok THEN DecFail
                  ELSE LET private == DecBool(buf, id.pos)
                       IN IF ~private.ok THEN DecFail
                          ELSE DecOk(Parameter(span.val, id.val, private.val),
                                     private.pos)

RECURSIVE DecParameterItems(_, _, _)
DecParameterItems(buf, pos, n) ==
  IF n = 0 THEN DecOk(<<>>, pos)
  ELSE LET first == DecParameter(buf, pos)
       IN IF ~first.ok THEN DecFail
          ELSE LET rest == DecParameterItems(buf, first.pos, n - 1)
               IN IF ~rest.ok THEN DecFail
                  ELSE DecOk(<<first.val>> \o rest.val, rest.pos)

\* Vec<Parameter>
DecArguments(buf, pos) ==
  LET b == ByteAt(buf, pos)
  IN IF b >= 128 /\ b < 152 THEN DecParameterItems(buf, pos + 1, b - 128) ELSE DecFail

DecSolver(buf, pos) ==
  LET b == ByteAt(buf, pos)
  IN IF b = 97
     THEN LET name == DecText1(buf, pos)
          IN IF name.ok /\ name.val \in SolverNames
             THEN DecOk(SolverVal(name.val), name.pos)
             ELSE DecFail
     ELSE IF b = 161
     THEN LET name == DecText1(buf, pos + 1)
          IN IF name.ok /\ name.val = 82
             THEN LET i == DecUint(buf, name.pos)
                  IN IF i.ok THEN DecOk(SolverRef(i.val), i.pos) ELSE DecFail
             ELSE DecFail
     ELSE DecFail

RECURSIVE DecSolverItems(_, _, _)
DecSolverItems(buf, pos, n) ==
  IF n = 0 THEN DecOk(<<>>, pos)
  ELSE LET first == DecSolver(buf, pos)
       IN IF ~first.ok THEN DecFail
          ELSE LET rest == DecSolverItems(buf, first.pos, n - 1)
               IN IF ~rest.ok THEN DecFail
                  ELSE DecOk(<<first.val>> \o rest.val, rest.pos)

\* Vec<Solver>
DecSolvers(buf, pos) ==
  LET b == ByteAt(buf, pos)
  IN IF b >= 128 /\ b < 152 THEN DecSolverItems(buf, pos + 1, b - 128) ELSE DecFail

\* The payload of a statement variant.
DecStatementBody(buf, pos, variant) ==
  CASE variant = 67 ->
         IF ByteAt(buf, pos) # 130 THEN DecFail
         ELSE LET i == DecUint(buf, pos + 1)
              IN IF ~i.ok THEN DecFail
                 ELSE LET o == DecUint(buf, i.pos)
                      IN IF ~o.ok THEN DecFail
                         ELSE DecOk(Constraint(i.val, o.val), o.pos)
    [] variant = 68 ->
         IF ByteAt(buf, pos) # 130 THEN DecFail
         ELSE LET s == DecSolver(buf, pos + 1)
              IN IF ~s.ok THEN DecFail
                 ELSE LET o == DecUint(buf, s.pos)
                      IN IF ~o.ok THEN DecFail
                         ELSE DecOk(Directive(s.val, o.val), o.pos)
    [] variant = 76 ->
         IF ByteAt(buf, pos) = 128 THEN DecOk(Log, pos + 1) ELSE DecFail
    [] OTHER -> DecFail

\* Statement: an enum is read from a one-entry map {name: payload} or from
\* the legacy two-element array [name, payload]; the name must be a variant.
DecStatement(buf, pos) ==
  IF ByteAt(buf, pos) \in {161, 130}
  THEN LET name == DecText1(buf, pos + 1)
       IN IF name.ok THEN DecStatementBody(buf, name.pos, name.val) ELSE DecFail
  ELSE DecFail

\* Where the decoder stands after a failed decode: it has consumed the
\* items it accepted and the byte it refused (if there was one).
Refused(buf, pos) == IF pos < Len(buf) THEN pos + 1 ELSE Len(buf)

DecSolverStop(buf, pos) ==
  LET b == ByteAt(buf, pos)
  IN IF b = 97 THEN Refused(buf, pos + 1)
     ELSE IF b = 161
     THEN LET name == DecText1(buf, pos + 1)
          IN IF ~name.ok
             THEN Refused(buf, IF ByteAt(buf, pos + 1) = 97 THEN pos + 2 ELSE pos + 1)
             ELSE IF name.val # 82 THEN name.pos
             ELSE Refused(buf, name.pos)
     ELSE Refused(buf, pos)

DecStatementBodyStop(buf, pos, variant) ==
  CASE variant = 67 ->
         IF ByteAt(buf, pos) # 130 THEN Refused(buf, pos)
         ELSE LET i == DecUint(buf, pos + 1)
              IN IF ~i.ok THEN Refused(buf, pos + 1) ELSE Refused(buf, i.pos)
    [] variant = 68 ->
         IF ByteAt(buf, pos) # 130 THEN Refused(buf, pos)
         ELSE LET s == DecSolver(buf, pos + 1)
              IN IF ~s.ok THEN DecSolverStop(buf, pos + 1) ELSE Refused(buf, s.pos)
    [] variant = 76 -> Refused(buf, pos)
    [] OTHER -> pos

\* The position after a failed DecStatement at pos.
DecStatementStop(buf, pos) ==
  IF ByteAt(buf, pos) \in {161, 130}
  THEN LET name == DecText1(buf, pos + 1)
       IN IF name.ok THEN DecStatementBodyStop(buf, name.pos, name.val)
          ELSE Refused(buf, IF ByteAt(buf, pos + 1) = 97 THEN pos + 2 ELSE pos + 1)
  ELSE Refused(buf, pos)

RECURSIVE DecModuleEntries(_, _, _)
DecModuleEntries(buf, pos, n) ==
  IF n = 0 THEN DecOk(EmptyModuleMap, pos)
  ELSE LET k == DecUint(buf, pos)
       IN IF ~k.ok THEN DecFail
          ELSE LET v == DecUint(buf, k.pos)
               IN IF ~v.ok THEN DecFail
                  ELSE LET rest == DecModuleEntries(buf, v.pos, n - 1)
                       IN IF ~rest.ok THEN DecFail
                          ELSE DecOk([h \in DOMAIN rest.val \cup {k.val} |->
                                        IF h \in DOMAIN rest.val THEN rest.val[h]
                                        ELSE v.val],
                                     rest.pos)

\* ModuleMap
DecModuleMap(buf, pos) ==
  LET b == ByteAt(buf, pos)
  IN IF b >= 160 /\ b < 184 THEN DecModuleEntries(buf, pos + 1, b - 160) ELSE DecFail

(***************************************************************************)
(* In-memory size of ProgHeader (std::mem::size_of), from the layout of    *)
(* its fields: a struct's size is the sum of its field sizes rounded up to *)
(* its alignment, which is that of u64 here.                               *)
(***************************************************************************)
SizeOfSection(align) == RoundUp(4 + 8 + 8, align)
\* Mutant: only the four section entries are reserved.
SizeOfProgHeader_sections(align) == RoundUp(4 * SizeOfSection(align), align)

\* size_of::<ProgHeader>()
SizeOfProgHeader(align) == RoundUp(4 + 4 + 4 + 4 * SizeOfSection(align), align)

(***************************************************************************)
(* ProgHeader::write: the bytes of a header.                               *)
(***************************************************************************)
SectionBytes(s) == U32LE(s.ty) \o U64LE(s.offset) \o U64LE(s.length)

\* Mutant: return_count written before constraint_count.
HeaderCounts_swapped(h) == U32LE(h.return_count) \o U32LE(h.constraint_count)

\* The two counts, in the order they are written.
HeaderCounts(h) == U32LE(h.constraint_count) \o U32LE(h.return_count)

ProgHeader_write(h) ==
  h.curve_id \o HeaderCounts(h)
    \o SectionBytes(h.sections[1]) \o SectionBytes(h.sections[2])
    \o SectionBytes(h.sections[3]) \o SectionBytes(h.sections[4])

(***************************************************************************)
(* Solver Indexer: interns the solver of a directive into the list of      *)
(* solvers seen (first-seen order) and rewrites the directive to refer to  *)
(* it by index; every other statement passes through unchanged.            *)
(***************************************************************************)
SolverIndex(solvers, s) == CHOOSE i \in 1..Len(solvers) : solvers[i] = s

SolverIndexer_fold_statement(solvers, s) ==
  IF s.kind = "Directive"
  THEN LET seen == \E i \in 1..Len(solvers) : solvers[i] = s.solver
           next == IF seen THEN solvers ELSE Append(solvers, s.solver)
           index == SolverIndex(next, s.solver) - 1
       IN [solvers |-> next, out |-> <<[s EXCEPT !.solver = SolverRef(index)]>>]
  ELSE [solvers |-> solvers, out |-> <<s>>]

(***************************************************************************)
(* Unconstrained-Variable Detector: records the variables produced (output *)
(* of a constraint or directive) and consumed (input of a constraint), and *)
(* passes the statement through.  finalize counts the variables produced   *)
(* and never consumed.                                                     *)
(***************************************************************************)
UnconstrainedVariableDetector_new == [produced |-> {}, consumed |-> {}]

UnconstrainedVariableDetector_fold_statement(d, s) ==
  CASE s.kind = "Constraint" ->
         [det |-> [produced |-> d.produced \cup {s.output},
                   consumed |-> d.consumed \cup {s.input}],
          out |-> <<s>>]
    [] s.kind = "Directive" ->
         [det |-> [d EXCEPT !.produced = @ \cup {s.output}], out |-> <<s>>]
    [] OTHER -> [det |-> d, out |-> <<s>>]

\* flat_map of the detector over the statements the indexer returned.
RECURSIVE DetectorFlatMap(_, _)
DetectorFlatMap(d, ss) ==
  IF ss = <<>> THEN [det |-> d, out |-> <<>>]
  ELSE LET first == UnconstrainedVariableDetector_fold_statement(d, Head(ss))
           rest == DetectorFlatMap(first.det, Tail(ss))
       IN [det |-> rest.det, out |-> first.out \o rest.out]

\* finalize(): the number of variables produced and never consumed.
UnconstrainedVariableDetector_finalize(d) == Cardinality(d.produced \ d.consumed)

(***************************************************************************)
(* State.                                                                  *)
(***************************************************************************)
VARIABLES
  u64_align,        \* alignment of u64 on the build target
  T,                \* the field type the program is instantiated with
  prog,             \* the program handed to serialize (self)
  statements,       \* self.statements.into_iter(): what is left to drain
  w, wpos,          \* the sink: its bytes and its stream position
  pc,               \* position of serialize
  header_start,
  parameters, constraints, solvers, module_map,   \* the Section locals
  solver_indexer,   \* SolverIndexer.solvers
  unconstrained_variable_detector,
  count,
  result,           \* what serialize returned
  rpc,              \* position of the reader
  src,              \* the bytes of the source handed to the reader
  header,           \* what ProgHeader::read returned
  rT,               \* the field type ProgIterator::read is called with
  rpos, seeks,      \* the source's stream position; the seeks read performed
  deserialized_p,   \* the eagerly decoded fields of the program read
  yielded,          \* the statements the lazy iterator has yielded, each
                    \* with the position its record starts at
  lhs, rhs,         \* two Parameters
  cmp               \* what comparing and hashing them returned

wvars == <<u64_align, T, prog, statements, w, wpos, pc, header_start,
           parameters, constraints, solvers, module_map, solver_indexer,
           unconstrained_variable_detector, count, result>>

rvars == <<rpc, src, header, rT, rpos, seeks, deserialized_p, yielded>>

pvars == <<lhs, rhs, cmp>>

vars == <<wvars, rvars, pvars>>

NoResult == [kind |-> "None", val |-> 0]
Ok(n) == [kind |-> "Ok", val |-> n]
\* "Error: Found {} unconstrained variable(s)"
ErrUnconstrained(k) == [kind |-> "ErrUnconstrained", val |-> k]
\* The std::io::Error of a failed write, passed on by `?`.
ErrIo == [kind |-> "ErrIo", val |-> 0]

Programs ==
  [arguments : ArgumentLists,
   statements : SeqsUpTo(InputStatements, MaxStmts),
   return_count : ReturnCounts,
   module_map : ModuleMaps]

InitWriter ==
  /\ u64_align \in U64Aligns
  /\ T \in Curves
  /\ prog \in Programs
  /\ statements = prog.statements
  /\ w = <<>>
  /\ wpos = 0
  /\ pc = "start"
  /\ header_start = 0
  /\ parameters = NoSection
  /\ constraints = NoSection
  /\ solvers = NoSection
  /\ module_map = NoSection
  /\ solver_indexer = <<>>
  /\ unconstrained_variable_detector = UnconstrainedVariableDetector_new
  /\ count = 0
  /\ result = NoResult

(***************************************************************************)
(* ProgIterator::serialize, in the order of its statements.                *)
(***************************************************************************)
\* Magic, version, the reserved header bytes and the Parameters section;
\* then the passes are created and the Constraints section is opened.
SerializeBegin ==
  /\ pc = "start"
  /\ LET w1 == WriteAll(w, wpos, ZOKRATES_MAGIC)
         p1 == wpos + Len(ZOKRATES_MAGIC)
         w2 == WriteAll(w1, p1, FILE_VERSION)
         p2 == p1 + Len(FILE_VERSION)
         w3 == WriteAll(w2, p2, Zeros(SizeOfProgHeader(u64_align)))
         p3 == p2 + SizeOfProgHeader(u64_align)
         args == EncArguments(prog.arguments)
         w4 == WriteAll(w3, p3, args)
         p4 == p3 + Len(args)
     IN /\ header_start' = p2
        /\ parameters' = [Section_new(SectionType_Parameters)
                            EXCEPT !.offset = p3, !.length = p4 - p3]
        /\ constraints' = [Section_new(SectionType_Constraints) EXCEPT !.offset = p4]
        /\ w' = w4
        /\ wpos' = p4
  /\ solver_indexer' = <<>>
  /\ unconstrained_variable_detector' = UnconstrainedVariableDetector_new
  /\ count' = 0
  /\ pc' = "constraints"
  /\ UNCHANGED <<u64_align, T, prog, statements, solvers, module_map, result, rvars, pvars>>

\* Mutant: directives are counted as well.
Counted_directives(s) == s.kind \in {"Constraint", "Directive"}

\* Mutant: every statement is counted.
Counted_all(s) == TRUE

\* Whether a statement adds to count.
Counted(s) == s.kind = "Constraint"

\* Mutant: a new indexer is made for each statement.
SerializeStatement_fresh ==
  /\ pc = "constraints"
  /\ statements # <<>>
  /\ LET s == Head(statements)
         indexed == SolverIndexer_fold_statement(<<>>, s)
         folded == DetectorFlatMap(unconstrained_variable_detector, indexed.out)
         bytes == EncStatements(folded.out)
     IN /\ count' = IF Counted(s) THEN count + 1 ELSE count
        /\ solver_indexer' = indexed.solvers
        /\ unconstrained_variable_detector' = folded.det
        /\ w' = WriteAll(w, wpos, bytes)
        /\ wpos' = wpos + Len(bytes)
  /\ statements' = Tail(statements)
  /\ UNCHANGED <<u64_align, T, prog, pc, header_start, parameters, constraints,
                 solvers, module_map, result, rvars, pvars>>

\* Mutant: the statement encoded is the one taken from the iterator, not
\* what the passes returned.
SerializeStatement_unfolded ==
  /\ pc = "constraints"
  /\ statements # <<>>
  /\ LET s == Head(statements)
         indexed == SolverIndexer_fold_statement(solver_indexer, s)
         folded == DetectorFlatMap(unconstrained_variable_detector, indexed.out)
         bytes == EncStatements(<<s>>)
     IN /\ count' = IF Counted(s) THEN count + 1 ELSE count
        /\ solver_indexer' = indexed.solvers
        /\ unconstrained_variable_detector' = folded.det
        /\ w' = WriteAll(w, wpos, bytes)
        /\ wpos' = wpos + Len(bytes)
  /\ statements' = Tail(statements)
  /\ UNCHANGED <<u64_align, T, prog, pc, header_start, parameters, constraints,
                 solvers, module_map, result, rvars, pvars>>

\* One iteration of the loop over the statements.
SerializeStatement ==
  /\ pc = "constraints"
  /\ statements # <<>>
  /\ LET s == Head(statements)
         indexed == SolverIndexer_fold_statement(solver_indexer, s)
         folded == DetectorFlatMap(unconstrained_variable_detector, indexed.out)
         bytes == EncStatements(folded.out)
     IN /\ count' = IF Counted(s) THEN count + 1 ELSE count
        /\ solver_indexer' = indexed.solvers
        /\ unconstrained_variable_detector' = folded.det
        /\ w' = WriteAll(w, wpos, bytes)
        /\ wpos' = wpos + Len(bytes)
  /\ statements' = Tail(statements)
  /\ UNCHANGED <<u64_align, T, prog, pc, header_start, parameters, constraints,
                 solvers, module_map, result, rvars, pvars>>

\* The section type given to the module map section.
ModuleMapSectionType == SectionType_Solvers

\* Mutant: the offset of the Solvers section is taken after its payload is
\* written.
SerializeSections_offset ==
  /\ pc = "constraints"
  /\ statements = <<>>
  /\ LET sb == EncSolvers(solver_indexer)
         w1 == WriteAll(w, wpos, sb)
         p1 == wpos + Len(sb)
         mb == EncModuleMap(prog.module_map)
         w2 == WriteAll(w1, p1, mb)
         p2 == p1 + Len(mb)
     IN /\ constraints' = [constraints EXCEPT !.length = wpos - constraints.offset]
        /\ solvers' = [Section_new(SectionType_Solvers)
                         EXCEPT !.offset = p1, !.length = p1 - p1]
        /\ module_map' = [Section_new(ModuleMapSectionType)
                            EXCEPT !.offset = p1, !.length = p2 - p1]
        /\ w' = w2
        /\ wpos' = p2
  /\ pc' = "header"
  /\ UNCHANGED <<u64_align, T, prog, statements, header_start, parameters,
                 solver_indexer, unconstrained_variable_detector, count, result,
                 rvars, pvars>>

\* The statements are drained: the Constraints section is closed, and the
\* Solvers and module map sections are written.
SerializeSections ==
  /\ pc = "constraints"
  /\ statements = <<>>
  /\ LET sb == EncSolvers(solver_indexer)
         w1 == WriteAll(w, wpos, sb)
         p1 == wpos + Len(sb)
         mb == EncModuleMap(prog.module_map)
         w2 == WriteAll(w1, p1, mb)
         p2 == p1 + Len(mb)
     IN /\ constraints' = [constraints EXCEPT !.length = wpos - constraints.offset]
        /\ solvers' = [Section_new(SectionType_Solvers)
                         EXCEPT !.offset = wpos, !.length = p1 - wpos]
        /\ module_map' = [Section_new(ModuleMapSectionType)
                            EXCEPT !.offset = p1, !.length = p2 - p1]
        /\ w' = w2
        /\ wpos' = p2
  /\ pc' = "header"
  /\ UNCHANGED <<u64_align, T, prog, statements, header_start, parameters,
                 solver_indexer, unconstrained_variable_detector, count, result,
                 rvars, pvars>>

\* The header serialize builds from its locals.
SerializeHeaderValue ==
  [curve_id |-> CurveId(T),
   constraint_count |-> AsU32(count),
   return_count |-> AsU32(prog.return_count),
   sections |-> <<parameters, constraints, solvers, module_map>>]

\* Mutant: the detector is finalized before the header is patched, and its
\* error returns early.
SerializeHeader_late ==
  /\ pc = "header"
  /\ LET bytes == ProgHeader_write(SerializeHeaderValue)
         k == UnconstrainedVariableDetector_finalize(unconstrained_variable_detector)
     IN IF k = 0
        THEN /\ w' = WriteAll(w, header_start, bytes)
             /\ wpos' = header_start + Len(bytes)
             /\ pc' = "finalize"
             /\ UNCHANGED result
        ELSE /\ result' = ErrUnconstrained(k)
             /\ pc' = "done"
             /\ UNCHANGED <<w, wpos>>
  /\ UNCHANGED <<u64_align, T, prog, statements, header_start, parameters,
                 constraints, solvers, module_map, solver_indexer,
                 unconstrained_variable_detector, count, rvars, pvars>>

\* Rewind to header_start and write the header.
SerializeHeader ==
  /\ pc = "header"
  /\ LET bytes == ProgHeader_write(SerializeHeaderValue)
     IN /\ w' = WriteAll(w, header_start, bytes)
        /\ wpos' = header_start + Len(bytes)
  /\ pc' = "finalize"
  /\ UNCHANGED <<u64_align, T, prog, statements, header_start, parameters,
                 constraints, solvers, module_map, solver_indexer,
                 unconstrained_variable_detector, count, result, rvars, pvars>>

\* Mutant: the error carries serialize's count instead of the detector's.
SerializeResult_count(k, n) == IF k = 0 THEN Ok(n) ELSE ErrUnconstrained(n)

\* What serialize returns from the detector's finalization.
SerializeResult(k, n) == IF k = 0 THEN Ok(n) ELSE ErrUnconstrained(k)

\* The detector's finalization decides the result.
SerializeFinalize ==
  /\ pc = "finalize"
  /\ result' = SerializeResult(
                  UnconstrainedVariableDetector_finalize(unconstrained_variable_detector),
                  count)
  /\ pc' = "done"
  /\ UNCHANGED <<u64_align, T, prog, statements, w, wpos, header_start, parameters,
                 constraints, solvers, module_map, solver_indexer,
                 unconstrained_variable_detector, count, rvars, pvars>>

(***************************************************************************)
(* serialize on a sink whose write fails.  A write_all that fails has put  *)
(* nothing, or a part, of its bytes into the sink; `?` returns the error   *)
(* at once and the locals of serialize are dropped with the return.        *)
(***************************************************************************)
\* How many of its bytes a failing write_all may have written.
PartialLens(bytes) == {n \in {0, 1, Len(bytes) \div 2, Len(bytes) - 1} : n >= 0 /\ n < Len(bytes)}

\* The sink after the writes in done succeeded and the write of bytes failed
\* with n of them written.
SinkAfterFailure(done, bytes, n) == WriteAll(w, wpos, done \o SubSeq(bytes, 1, n))

\* One of the four writes of the first step fails: magic, version, the
\* reserved header bytes, or the parameters.
SerializeBeginFails ==
  /\ pc = "start"
  /\ LET filler == Zeros(SizeOfProgHeader(u64_align))
         args == EncArguments(prog.arguments)
     IN \/ \E n \in PartialLens(ZOKRATES_MAGIC) :
             w' = SinkAfterFailure(<<>>, ZOKRATES_MAGIC, n)
        \/ \E n \in PartialLens(FILE_VERSION) :
             w' = SinkAfterFailure(ZOKRATES_MAGIC, FILE_VERSION, n)
        \/ \E n \in PartialLens(filler) :
             w' = SinkAfterFailure(ZOKRATES_MAGIC \o FILE_VERSION, filler, n)
        \/ \E n \in PartialLens(args) :
             w' = SinkAfterFailure(ZOKRATES_MAGIC \o FILE_VERSION \o filler, args, n)
  /\ wpos' = Len(w')
  /\ result' = ErrIo
  /\ pc' = "failed"
  /\ UNCHANGED <<u64_align, T, prog, statements, header_start, parameters,
                 constraints, solvers, module_map, solver_indexer,
                 unconstrained_variable_detector, count, rvars, pvars>>

\* The write of a statement record fails.
SerializeStatementFails ==
  /\ pc = "constraints"
  /\ statements # <<>>
  /\ LET s == Head(statements)
         indexed == SolverIndexer_fold_statement(solver_indexer, s)
         folded == DetectorFlatMap(unconstrained_variable_detector, indexed.out)
         bytes == EncStatements(folded.out)
     IN \E n \in PartialLens(bytes) : w' = SinkAfterFailure(<<>>, bytes, n)
  /\ wpos' = Len(w')
  /\ result' = ErrIo
  /\ pc' = "failed"
  /\ UNCHANGED <<u64_align, T, prog, statements, header_start, parameters,
                 constraints, solvers, module_map, solver_indexer,
                 unconstrained_variable_detector, count, rvars, pvars>>

\* The write of the solvers, or of the module map, fails.
SerializeSectionsFails ==
  /\ pc = "constraints"
  /\ statements = <<>>
  /\ LET sb == EncSolvers(solver_indexer)
         mb == EncModuleMap(prog.module_map)
     IN \/ \E n \in PartialLens(sb) : w' = SinkAfterFailure(<<>>, sb, n)
        \/ \E n \in PartialLens(mb) : w' = SinkAfterFailure(sb, mb, n)
  /\ wpos' = Len(w')
  /\ result' = ErrIo
  /\ pc' = "failed"
  /\ UNCHANGED <<u64_align, T, prog, statements, header_start, parameters,
                 constraints, solvers, module_map, solver_indexer,
                 unconstrained_variable_detector, count, rvars, pvars>>

(***************************************************************************)
(* ProgHeader::read, from the start of the source.                         *)
(***************************************************************************)
RECURSIVE LEValue(_)
LEValue(bytes) == IF bytes = <<>> THEN 0 ELSE Head(bytes) + 256 * LEValue(Tail(bytes))

\* read_exact / read_u32 / read_u64 succeed when n bytes are left.
CanRead(buf, pos, n) == pos + n <= Len(buf)

NoHeader == [curve_id |-> <<>>, constraint_count |-> 0, return_count |-> 0,
             sections |-> <<>>]

HeaderErr(kind, pos) == [kind |-> kind, header |-> NoHeader, pos |-> pos]

\* ProgHeader::read_section at pos: [kind, section, pos].
ProgHeader_read_section(buf, pos) ==
  IF ~CanRead(buf, pos, 4)
  THEN [kind |-> "UnexpectedEof", section |-> NoSection, pos |-> pos]
  ELSE LET id == LEValue(Slice(buf, pos, 4))
       IN IF ~SectionTypeValid(id)
          THEN [kind |-> "InvalidData", section |-> NoSection, pos |-> pos + 4]
          ELSE IF ~CanRead(buf, pos + 4, 8)
          THEN [kind |-> "UnexpectedEof", section |-> NoSection, pos |-> pos + 4]
          ELSE IF ~CanRead(buf, pos + 12, 8)
          THEN [kind |-> "UnexpectedEof", section |-> NoSection, pos |-> pos + 12]
          ELSE [kind |-> "Ok",
                section |-> [ty |-> id,
                             offset |-> LEValue(Slice(buf, pos + 4, 8)),
                             length |-> LEValue(Slice(buf, pos + 12, 8))],
                pos |-> pos + 20]

\* The four section entries, in order, stopping at the first failure.
RECURSIVE ReadSections(_, _, _)
ReadSections(buf, pos, n) ==
  IF n = 0 THEN [kind |-> "Ok", sections |-> <<>>, pos |-> pos]
  ELSE LET first == ProgHeader_read_section(buf, pos)
       IN IF first.kind # "Ok"
          THEN [kind |-> first.kind, sections |-> <<>>, pos |-> first.pos]
          ELSE LET rest == ReadSections(buf, first.pos, n - 1)
               IN IF rest.kind # "Ok" THEN rest
                  ELSE [kind |-> "Ok",
                        sections |-> <<first.section>> \o rest.sections,
                        pos |-> rest.pos]

\* Mutant: only the major version byte is compared.
VersionOk_major(version) == version[1] = FILE_VERSION[1]

\* Whether the bytes read as magic / version are accepted.
MagicOk(magic) == magic = ZOKRATES_MAGIC
VersionOk(version) == version = FILE_VERSION

ProgHeader_read(buf) ==
  IF ~CanRead(buf, 0, 4) THEN HeaderErr("UnexpectedEof", 0)
  ELSE IF ~MagicOk(Slice(buf, 0, 4)) THEN HeaderErr("InvalidData", 4)
  ELSE IF ~CanRead(buf, 4, 4) THEN HeaderErr("UnexpectedEof", 4)
  ELSE IF ~VersionOk(Slice(buf, 4, 4)) THEN HeaderErr("InvalidData", 8)
  ELSE IF ~CanRead(buf, 8, 4) THEN HeaderErr("UnexpectedEof", 8)
  ELSE IF ~CanRead(buf, 12, 4) THEN HeaderErr("UnexpectedEof", 12)
  ELSE IF ~CanRead(buf, 16, 4) THEN HeaderErr("UnexpectedEof", 16)
  ELSE LET secs == ReadSections(buf, 20, 4)
       IN IF secs.kind # "Ok" THEN HeaderErr(secs.kind, secs.pos)
          ELSE [kind |-> "Ok",
                header |-> [curve_id |-> Slice(buf, 8, 4),
                            constraint_count |-> LEValue(Slice(buf, 12, 4)),
                            return_count |-> LEValue(Slice(buf, 16, 4)),
                            sections |-> secs.sections],
                pos |-> secs.pos]

NoHeaderResult == [kind |-> "None", header |-> NoHeader, pos |-> 0]

NoProgram == [arguments |-> <<>>, return_count |-> 0, module_map |-> EmptyModuleMap,
              solvers |-> <<>>]

InitReader ==
  /\ rpc = "closed"
  /\ src = <<>>
  /\ header = NoHeaderResult
  /\ rT = "none"
  /\ rpos = 0
  /\ seeks = 0
  /\ deserialized_p = NoProgram
  /\ yielded = <<>>

\* The sink, rewound, becomes the source of a read.
Rewind ==
  /\ pc = "done"
  /\ rpc = "closed"
  /\ src' = w
  /\ rpc' = "open"
  /\ UNCHANGED <<wvars, pvars, header, rT, rpos, seeks, deserialized_p, yielded>>

\* What a failed serialize left in the sink, rewound, becomes the source of
\* a read.
RewindFailed ==
  /\ pc = "failed"
  /\ rpc = "closed"
  /\ src' = w
  /\ rpc' = "open"
  /\ UNCHANGED <<wvars, pvars, header, rT, rpos, seeks, deserialized_p, yielded>>

\* The source is the file serialize left, with one byte of the magic or of
\* the version changed.
Tamper ==
  /\ pc = "done"
  /\ rpc = "closed"
  /\ \E i \in 1..8 : src' = [w EXCEPT ![i] = (@ + 1) % 256]
  /\ rpc' = "open"
  /\ UNCHANGED <<wvars, pvars, header, rT, rpos, seeks, deserialized_p, yielded>>

\* ProgHeader::read is run on the source.
HeaderRead ==
  /\ rpc = "open"
  /\ header' = ProgHeader_read(src)
  /\ rpos' = header'.pos
  /\ rpc' = IF header'.kind = "Ok" THEN "header_ok" ELSE "header_err"
  /\ UNCHANGED <<wvars, pvars, src, rT, seeks, deserialized_p, yielded>>

\* Mutant: the assertion is compiled out.
CurveAsserted_off(h, Tr) == TRUE

\* The curve assertion of ProgIterator::read.
CurveAsserted(h, Tr) == h.curve_id = CurveId(Tr)

\* Mutant: the statements are looked up at the Solvers entry.
ReadConstraintsSection_solvers(h) == h.sections[3]

\* Mutant: the solvers are looked up by section type.
ReadSolversSection_bytype(h) ==
  h.sections[Min({i \in 1..4 : h.sections[i].ty = SectionType_Solvers})]

\* The sections ProgIterator::read takes its four parts from.
ReadParametersSection(h) == h.sections[1]
ReadConstraintsSection(h) == h.sections[2]
ReadSolversSection(h) == h.sections[3]
ReadModuleMapSection(h) == h.sections[4]

\* Mutant: a module map that fails to decode is replaced by the default one.
ProgRead_default ==
  /\ rpc = "header_ok"
  /\ rT' \in Curves
  /\ LET h == header.header
         a == DecArguments(src, ReadParametersSection(h).offset)
         s == DecSolvers(src, ReadSolversSection(h).offset)
         m == DecModuleMap(src, ReadModuleMapSection(h).offset)
     IN IF ~CurveAsserted(h, rT')
        THEN /\ rpc' = "panic"
             /\ UNCHANGED <<rpos, seeks, deserialized_p>>
        ELSE IF ~a.ok
        THEN /\ rpc' = "panic"
             /\ rpos' = ReadParametersSection(h).offset
             /\ seeks' = seeks + 1
             /\ UNCHANGED deserialized_p
        ELSE IF ~s.ok
        THEN /\ rpc' = "panic"
             /\ rpos' = ReadSolversSection(h).offset
             /\ seeks' = seeks + 2
             /\ UNCHANGED deserialized_p
        ELSE /\ rpc' = "iter"
             /\ rpos' = ReadConstraintsSection(h).offset
             /\ seeks' = seeks + 4
             /\ deserialized_p' = [arguments |-> a.val,
                                   return_count |-> h.return_count,
                                   module_map |-> IF m.ok THEN m.val ELSE EmptyModuleMap,
                                   solvers |-> s.val]
  /\ UNCHANGED <<wvars, pvars, src, header, yielded>>

\* ProgIterator::read with the header just read: the curve assertion, the
\* three eager sections (a failed decode panics), and the seek to the
\* statements, which are left to the iterator.
ProgRead ==
  /\ rpc = "header_ok"
  /\ rT' \in Curves
  /\ LET h == header.header
         a == DecArguments(src, ReadParametersSection(h).offset)
         s == DecSolvers(src, ReadSolversSection(h).offset)
         m == DecModuleMap(src, ReadModuleMapSection(h).offset)
     IN IF ~CurveAsserted(h, rT')
        THEN /\ rpc' = "panic"
             /\ UNCHANGED <<rpos, seeks, deserialized_p>>
        ELSE IF ~a.ok
        THEN /\ rpc' = "panic"
             /\ rpos' = ReadParametersSection(h).offset
             /\ seeks' = seeks + 1
             /\ UNCHANGED deserialized_p
        ELSE IF ~s.ok
        THEN /\ rpc' = "panic"
             /\ rpos' = ReadSolversSection(h).offset
             /\ seeks' = seeks + 2
             /\ UNCHANGED deserialized_p
        ELSE IF ~m.ok
        THEN /\ rpc' = "panic"
             /\ rpos' = ReadModuleMapSection(h).offset
             /\ seeks' = seeks + 3
             /\ UNCHANGED deserialized_p
        ELSE /\ rpc' = "iter"
             /\ rpos' = ReadConstraintsSection(h).offset
             /\ seeks' = seeks + 4
             /\ deserialized_p' = [arguments |-> a.val,
                                   return_count |-> h.return_count,
                                   module_map |-> m.val,
                                   solvers |-> s.val]
  /\ UNCHANGED <<wvars, pvars, src, header, yielded>>

\* UnwrappedStreamDeserializer::next: the end of the source ends the
\* sequence, and so does a record that fails to decode.
IterNext ==
  /\ rpc = "iter"
  /\ LET d == DecStatement(src, rpos)
     IN IF ByteAt(src, rpos) = -1
        THEN /\ rpc' = "eof"
             /\ UNCHANGED <<rpos, yielded>>
        ELSE IF d.ok
        THEN /\ yielded' = Append(yielded, [s |-> d.val, at |-> rpos])
             /\ rpos' = d.pos
             /\ UNCHANGED rpc
        ELSE /\ rpc' = "stopped"
             /\ UNCHANGED <<rpos, yielded>>
  /\ UNCHANGED <<wvars, pvars, src, header, rT, seeks, deserialized_p>>

\* A pull after the pull that returned None on a record that failed to
\* decode: the iterator holds nothing but the stream, which stands where the
\* failed decode stopped, and decodes on from there.
IterNextAfterNone ==
  /\ rpc = "stopped"
  /\ LET at == DecStatementStop(src, rpos)
         d == DecStatement(src, at)
     IN IF ByteAt(src, at) = -1
        THEN /\ rpc' = "eof"
             /\ rpos' = at
             /\ UNCHANGED yielded
        ELSE IF d.ok
        THEN /\ yielded' = Append(yielded, [s |-> d.val, at |-> at])
             /\ rpos' = d.pos
             /\ rpc' = "iter"
        ELSE /\ rpos' = at
             /\ UNCHANGED <<rpc, yielded>>
  /\ UNCHANGED <<wvars, pvars, src, header, rT, seeks, deserialized_p>>

(***************************************************************************)
(* Sources that differ from the file serialize left.                       *)
(***************************************************************************)
\* The four section types in the order Parameters, Constraints, Solvers,
\* Modules, and that order rotated by one and by two entries.
TagVectors == {[i \in 1..4 |-> ((i + k - 1) % 4) + 1] : k \in 0..2}

\* The bytes at position pos replaced, inside the buffer.
RECURSIVE Overwrite(_, _, _)
Overwrite(buf, pos, bytes) ==
  IF bytes = <<>> THEN buf
  ELSE Overwrite([buf EXCEPT ![pos + 1] = Head(bytes)], pos + 1, Tail(bytes))

\* The file with the type tags of its four section entries replaced.
RECURSIVE WithTags(_, _, _)
WithTags(buf, tags, i) ==
  IF i > 4 THEN buf
  ELSE WithTags(Overwrite(buf, 8 + 12 + 20 * (i - 1), U32LE(tags[i])), tags, i + 1)

\* The source is the file serialize left, with other valid type tags on its
\* section entries.
Retag ==
  /\ pc = "done"
  /\ rpc = "closed"
  /\ \E tags \in TagVectors : src' = WithTags(w, tags, 1)
  /\ rpc' = "open"
  /\ UNCHANGED <<wvars, pvars, header, rT, rpos, seeks, deserialized_p, yielded>>

\* The source is the file serialize left, with the payload of one of the
\* four sections damaged: its first byte is no item of the wanted type, or
\* the file ends where the section should start.
CorruptSection ==
  /\ pc = "done"
  /\ rpc = "closed"
  /\ \E i \in 1..4 :
       LET at == <<parameters, constraints, solvers, module_map>>[i].offset
       IN \/ src' = Overwrite(w, at, <<255>>)
          \/ src' = SubSeq(w, 1, at)
  /\ rpc' = "open"
  /\ UNCHANGED <<wvars, pvars, header, rT, rpos, seeks, deserialized_p, yielded>>

\* The source is the file serialize left, with one byte of the Constraints
\* section replaced by a byte that starts no item.
CorruptRecord ==
  /\ pc = "done"
  /\ rpc = "closed"
  /\ \E at \in constraints.offset..(constraints.offset + constraints.length - 1) :
       src' = Overwrite(w, at, <<255>>)
  /\ rpc' = "open"
  /\ UNCHANGED <<wvars, pvars, header, rT, rpos, seeks, deserialized_p, yielded>>

(***************************************************************************)
(* Parameters: construction, WithSpan::span, and the derived comparisons.  *)
(***************************************************************************)
NoCmp == [done |-> FALSE, eq |-> FALSE, hash_lhs |-> <<>>, hash_rhs |-> <<>>,
          partial_cmp |-> None]

\* Two parameters as the constructors make them.
InitParameters ==
  /\ lhs \in {Parameter_public(v) : v \in Vars} \cup {Parameter_private(v) : v \in Vars}
  /\ rhs \in {Parameter_new(v, private) : v \in Vars, private \in BOOLEAN}
  /\ cmp = NoCmp

\* The parameters of a run that compares none.
IdleParameters ==
  /\ lhs = Parameter_public(1)
  /\ rhs = Parameter_public(1)
  /\ cmp = NoCmp

\* lhs.span(span)
SpanLhs ==
  /\ ~cmp.done
  /\ \E span \in Spans : lhs' = Parameter_span(lhs, span)
  /\ UNCHANGED <<wvars, rvars, rhs, cmp>>

\* rhs.span(span)
SpanRhs ==
  /\ ~cmp.done
  /\ \E span \in Spans : rhs' = Parameter_span(rhs, span)
  /\ UNCHANGED <<wvars, rvars, lhs, cmp>>

\* lhs == rhs, the hash of each, lhs.partial_cmp(&rhs).
Compare ==
  /\ ~cmp.done
  /\ cmp' = [done |-> TRUE,
             eq |-> ParameterEq(lhs, rhs),
             hash_lhs |-> ParameterHash(lhs),
             hash_rhs |-> ParameterHash(rhs),
             partial_cmp |-> ParameterPartialCmp(lhs, rhs)]
  /\ UNCHANGED <<wvars, rvars, lhs, rhs>>

\* A serialize that is never started and a reader that is never opened.
IdleProgram ==
  [arguments |-> <<>>, statements |-> <<>>, return_count |-> 0,
   module_map |-> EmptyModuleMap]

ParameterInit ==
  /\ InitWriter
  /\ u64_align = 8
  /\ T = "bn128"
  /\ prog = IdleProgram
  /\ InitReader
  /\ InitParameters

ParameterNext ==
  \/ SpanLhs
  \/ SpanRhs
  \/ Compare

ParameterSpec == ParameterInit /\ [][ParameterNext]_vars

Init == InitWriter /\ InitReader /\ IdleParameters

\* serialize alone.
SerializeNext ==
  \/ SerializeBegin
  \/ SerializeStatement
  \/ SerializeSections
  \/ SerializeHeader
  \/ SerializeFinalize

\* serialize, then a read of what it wrote.
Next ==
  \/ SerializeBegin
  \/ SerializeStatement
  \/ SerializeSections
  \/ SerializeHeader
  \/ SerializeFinalize
  \/ Rewind
  \/ Tamper
  \/ HeaderRead
  \/ ProgRead
  \/ IterNext

Spec == Init /\ [][Next]_vars

SerializeSpec == Init /\ [][SerializeNext]_vars

\* serialize on a sink whose writes can fail before the header is patched,
\* then ProgHeader::read on what a failed serialize left.  The field type,
\* the return count and the module map are fixed.
IoInit ==
  /\ Init
  /\ T = "bn128"
  /\ prog.return_count = 0
  /\ prog.module_map = EmptyModuleMap

IoNext ==
  \/ SerializeBegin
  \/ SerializeStatement
  \/ SerializeSections
  \/ SerializeHeader
  \/ SerializeFinalize
  \/ SerializeBeginFails
  \/ SerializeStatementFails
  \/ SerializeSectionsFails
  \/ RewindFailed
  \/ HeaderRead

IoSpec == IoInit /\ [][IoNext]_vars

\* serialize, then a read of its file under other section type tags.
RetagNext ==
  \/ SerializeBegin
  \/ SerializeStatement
  \/ SerializeSections
  \/ SerializeHeader
  \/ SerializeFinalize
  \/ Retag
  \/ HeaderRead
  \/ ProgRead
  \/ IterNext

RetagSpec == Init /\ [][RetagNext]_vars

\* serialize, then a read of its file with an eager section damaged.
CorruptNext ==
  \/ SerializeBegin
  \/ SerializeStatement
  \/ SerializeSections
  \/ SerializeHeader
  \/ SerializeFinalize
  \/ CorruptSection
  \/ HeaderRead
  \/ ProgRead
  \/ IterNext

CorruptSpec == Init /\ [][CorruptNext]_vars

\* serialize, then a read of its file with a statement record damaged, the
\* iterator being pulled again after it returned None.
StreamNext ==
  \/ SerializeBegin
  \/ SerializeStatement
  \/ SerializeSections
  \/ SerializeHeader
  \/ SerializeFinalize
  \/ CorruptRecord
  \/ HeaderRead
  \/ ProgRead
  \/ IterNext
  \/ IterNextAfterNone

StreamSpec == Init /\ [][StreamNext]_vars

(***************************************************************************)
(* Properties.                                                             *)
(***************************************************************************)
\* The lazy sequence has been drained: a pull returned None.
Drained == rpc \in {"eof", "stopped"}

YieldedStatements == [i \in 1..Len(yielded) |-> yielded[i].s]

\* A solver reference resolved in a solver list.
ResolveSolver(s, ss) == IF s.tag = "Ref" /\ s.v < Len(ss) THEN ss[s.v + 1] ELSE s

Resolved(st, ss) ==
  IF st.kind = "Directive" THEN [st EXCEPT !.solver = ResolveSolver(@, ss)] ELSE st

ArgumentsEq(a, b) ==
  /\ Len(a) = Len(b)
  /\ \A i \in 1..Len(a) : ParameterEq(a[i], b[i])

\* C1: a program that serialize accepted reads back, once the lazy sequence
\* is drained, equal in arguments, statements (same order, solvers compared
\* by the solver they resolve to), return_count and module map.
C1_RoundTrip ==
  (Drained /\ result.kind = "Ok") =>
    /\ ArgumentsEq(deserialized_p.arguments, prog.arguments)
    /\ Len(yielded) = Len(prog.statements)
    /\ \A i \in 1..Len(yielded) :
         i <= Len(prog.statements)
           /\ Resolved(YieldedStatements[i], deserialized_p.solvers) = prog.statements[i]
    /\ deserialized_p.return_count = prog.return_count
    /\ deserialized_p.module_map = prog.module_map

\* A drained read of an accepted program with arguments, a module map, a
\* directive and a constraint.
C1_Witness ==
  /\ Drained
  /\ result.kind = "Ok"
  /\ prog.arguments # <<>>
  /\ DOMAIN prog.module_map # {}
  /\ prog.return_count = 1
  /\ \E i \in 1..Len(prog.statements) : prog.statements[i].kind = "Directive"
  /\ \E i \in 1..Len(prog.statements) : prog.statements[i].kind = "Constraint"

\* The header has been patched into the sink.
HeaderPatched == pc \in {"finalize", "done"}

\* The type tag of section entry i (0..3) of the header in the sink.
TagAt(i) == LEValue(Slice(w, header_start + 12 + 20 * i, 4))

\* C2: once the header is patched, its four section entries are tagged
\* Parameters (1), Constraints (2), Solvers (3), Modules (4) in positions 0..3.
C2_SectionTags ==
  HeaderPatched => \A i \in 0..3 : TagAt(i) = i + 1

\* C3: the filler reserved at header_start is as long as the header that
\* ProgHeader::write emits there (92 bytes), so the Parameters payload starts
\* at 8 + 92.
C3_FillerIsHeaderSize ==
  pc = "finalize" =>
    /\ parameters.offset - header_start = wpos - header_start
    /\ parameters.offset = 8 + 92

\* The statement records that decode one after the other in [pos, end), each
\* with the position it starts at.
RECURSIVE DecodeRecords(_, _, _)
DecodeRecords(buf, pos, end) ==
  IF pos >= end THEN <<>>
  ELSE LET d == DecStatement(buf, pos)
       IN IF ~d.ok THEN <<>>
          ELSE <<[s |-> d.val, at |-> pos]>> \o DecodeRecords(buf, d.pos, end)

\* The records of the Constraints section of the sink.
SectionRecords == DecodeRecords(w, constraints.offset, constraints.offset + constraints.length)

NumberOf(kind, recs) == Cardinality({i \in 1..Len(recs) : recs[i].s.kind = kind})

ConstraintsEnd == constraints.offset + constraints.length

\* C5: the lazy sequence yields only records that lie inside the
\* Constraints section, and once drained it has yielded exactly the records
\* of that section, one per statement written.
C5_IteratorStaysInSection ==
  /\ \A i \in 1..Len(yielded) :
       /\ yielded[i].at >= constraints.offset
       /\ yielded[i].at < ConstraintsEnd
  /\ rpc \in {"iter", "eof", "stopped"} => rpos <= ConstraintsEnd
  /\ Drained =>
       /\ yielded = SectionRecords
       /\ Len(yielded) = Len(prog.statements)
       /\ rpos = ConstraintsEnd

\* A drained sequence of two records, with a non-empty Solvers payload
\* right after the section.
C5_Witness ==
  /\ Drained
  /\ Len(yielded) = 2
  /\ solver_indexer # <<>>
  /\ solvers.offset = ConstraintsEnd

\* The variables a statement sequence produces and never consumes.
ProducedBy(ss) ==
  {ss[i].output : i \in {j \in 1..Len(ss) : ss[j].kind \in {"Constraint", "Directive"}}}
ConsumedBy(ss) ==
  {ss[i].input : i \in {j \in 1..Len(ss) : ss[j].kind = "Constraint"}}
Unconstrained(ss) == ProducedBy(ss) \ ConsumedBy(ss)

\* C6: serialize returns nothing before the statements are drained and the
\* header patched; it then fails exactly when k, the number of variables
\* produced and never consumed, is not zero, and the error carries k.
C6_ErrorIffUnconstrained ==
  LET k == Cardinality(Unconstrained(prog.statements))
  IN /\ pc # "done" => result = NoResult
     /\ pc = "done" =>
          /\ k = 0 => result.kind = "Ok"
          /\ k # 0 => result = ErrUnconstrained(k)

\* serialize failed with two unconstrained variables and no constraint.
C6_Witness ==
  /\ pc = "done"
  /\ result = ErrUnconstrained(2)
  /\ count = 0

\* The statements as the indexer rewrites them, and the solvers it interns.
RECURSIVE IndexAll(_, _)
IndexAll(ss, seen) ==
  IF ss = <<>> THEN [solvers |-> seen, out |-> <<>>]
  ELSE LET first == SolverIndexer_fold_statement(seen, Head(ss))
           rest == IndexAll(Tail(ss), first.solvers)
       IN [solvers |-> rest.solvers, out |-> first.out \o rest.out]

\* The sink holds a whole file: magic, version, the header built from the
\* sections (not the filler), and the four payloads at the sections' places,
\* with nothing after them.
FileComplete ==
  LET indexed == IndexAll(prog.statements, <<>>)
      h == SerializeHeaderValue
  IN /\ Slice(w, 0, 4) = ZOKRATES_MAGIC
     /\ Slice(w, 4, 4) = FILE_VERSION
     /\ Slice(w, header_start, 92) = ProgHeader_write(h)
     /\ Slice(w, header_start, 4) = CurveId(T)
     /\ h.constraint_count = NumberOf("Constraint", SectionRecords)
     /\ h.return_count = prog.return_count
     /\ Slice(w, parameters.offset, parameters.length) = EncArguments(prog.arguments)
     /\ Slice(w, constraints.offset, constraints.length) = EncStatements(indexed.out)
     /\ Slice(w, solvers.offset, solvers.length) = EncSolvers(indexed.solvers)
     /\ Slice(w, module_map.offset, module_map.length) = EncModuleMap(prog.module_map)
     /\ Len(w) = module_map.offset + module_map.length

\* C7: whenever serialize has returned, with the unconstrained-variable
\* error as with success, the sink holds the whole file, patched header
\* included: the file does not depend on what finalization reports.
C7_FileCompleteOnError ==
  result # NoResult => FileComplete

\* serialize failed on a program of two statements.
C7_Witness ==
  /\ result.kind = "ErrUnconstrained"
  /\ Len(prog.statements) = 2
  /\ FileComplete

\* The solvers the directives of a statement sequence embed.
SolversOf(ss) ==
  {ss[i].solver : i \in {j \in 1..Len(ss) : ss[j].kind = "Directive"}}

\* The Solvers section of the sink, decoded.
SectionSolvers == DecSolvers(w, solvers.offset)

\* C8: once the sections are written, the Solvers section lists each solver
\* the directives reference exactly once and nothing else, and each directive
\* record carries the index of its statement's solver in that list.
C8_SolverInterning ==
  pc \in {"header", "finalize", "done"} =>
    LET ss == SectionSolvers.val
        recs == SectionRecords
    IN /\ SectionSolvers.ok
       /\ \A i, j \in 1..Len(ss) : ss[i] = ss[j] => i = j
       /\ {ss[i] : i \in 1..Len(ss)} = SolversOf(prog.statements)
       /\ Len(recs) = Len(prog.statements)
       /\ \A i \in 1..Len(recs) :
            i <= Len(prog.statements) /\ prog.statements[i].kind = "Directive" =>
              /\ recs[i].s.kind = "Directive"
              /\ recs[i].s.solver.tag = "Ref"
              /\ recs[i].s.solver.v < Len(ss)
              /\ ss[recs[i].s.solver.v + 1] = prog.statements[i].solver

\* Two directives with one solver: one entry, both records refer to index 0.
C8_Witness ==
  /\ pc = "done"
  /\ Len(prog.statements) = 2
  /\ \A i \in 1..Len(prog.statements) : prog.statements[i].kind = "Directive"
  /\ Len(SectionSolvers.val) = 1
  /\ Len(SectionRecords) = 2
  /\ \A i \in 1..Len(SectionRecords) : SectionRecords[i].s.solver = SolverRef(0)

\* ProgHeader::read has returned.
HeaderReturned == rpc \notin {"closed", "open"}

\* C9: ProgHeader::read fails with an invalid-format error and no header
\* when a byte of the magic or of the version differs from its constant,
\* and returns the header serialize wrote when those eight bytes are intact.
C9_MagicVersionGuard ==
  HeaderReturned =>
    IF Slice(src, 0, 8) = ZOKRATES_MAGIC \o FILE_VERSION
    THEN /\ header.kind = "Ok"
         /\ ProgHeader_write(header.header) = Slice(w, header_start, 92)
    ELSE /\ header.kind = "InvalidData"
         /\ header.header = NoHeader

\* The last byte of the version was changed and the read failed.
C9_Witness ==
  /\ rpc = "header_err"
  /\ Slice(src, 0, 7) = Slice(w, 0, 7)
  /\ src[8] # w[8]

\* C10: ProgIterator::read with a field type whose curve id differs from the
\* header's fails before any seek or decode and returns no program, and the
\* curve id in a patched header is that of the program's field type.
C10_CurveGuard ==
  /\ (rT # "none" /\ CurveId(rT) # header.header.curve_id) =>
       /\ rpc = "panic"
       /\ seeks = 0
       /\ rpos = header.pos
       /\ deserialized_p = NoProgram
       /\ yielded = <<>>
  /\ HeaderPatched => Slice(w, header_start, 4) = CurveId(T)
  /\ header.kind = "Ok" => header.header.curve_id = CurveId(T)

\* A read that asked for the other field type and panicked.
C10_Witness ==
  /\ rpc = "panic"
  /\ rT # "none"
  /\ rT # T

\* The Constraint-variant statements of a statement sequence.
ConstraintsOf(ss) == {i \in 1..Len(ss) : ss[i].kind = "Constraint"}

\* C11: the constraint_count in the patched header, and the value serialize
\* returns on success, are the number of Constraint-variant statements of the
\* input sequence; directives and the other variants add nothing.
C11_CountIsInputConstraints ==
  LET n == Cardinality(ConstraintsOf(prog.statements))
  IN /\ HeaderPatched => LEValue(Slice(w, header_start + 4, 4)) = n
     /\ result.kind = "Ok" => result = Ok(n)

\* serialize succeeded on a directive followed by the constraint that
\* consumes its output: one constraint is reported for two statements.
C11_Witness ==
  /\ pc = "done"
  /\ result = Ok(1)
  /\ Len(prog.statements) = 2
  /\ prog.statements[1].kind = "Directive"
  /\ LEValue(Slice(w, header_start + 4, 4)) = 1

\* Section entry i (1..4) of the header in the sink: offset and length.
OffsetAt(i) == LEValue(Slice(w, header_start + 12 + 20 * (i - 1) + 4, 8))
LengthAt(i) == LEValue(Slice(w, header_start + 12 + 20 * (i - 1) + 12, 8))

\* C14: in the patched header each section's (offset, length) delimits the
\* bytes written for it, counted from the start of the sink; the sections
\* follow one another without gap or overlap in the order Parameters,
\* Constraints, Solvers, Modules, and the last one ends where the data ends.
C14_SectionsContiguous ==
  HeaderPatched =>
    LET indexed == IndexAll(prog.statements, <<>>)
    IN /\ OffsetAt(1) >= header_start + 92
       /\ \A i \in 1..3 : OffsetAt(i + 1) = OffsetAt(i) + LengthAt(i)
       /\ OffsetAt(4) + LengthAt(4) = Len(w)
       /\ Slice(w, OffsetAt(1), LengthAt(1)) = EncArguments(prog.arguments)
       /\ Slice(w, OffsetAt(2), LengthAt(2)) = EncStatements(indexed.out)
       /\ Slice(w, OffsetAt(3), LengthAt(3)) = EncSolvers(indexed.solvers)
       /\ Slice(w, OffsetAt(4), LengthAt(4)) = EncModuleMap(prog.module_map)

\* A patched header over four sections none of which is empty of content:
\* arguments, two statements, a solver and a module map.
C14_Witness ==
  /\ HeaderPatched
  /\ prog.arguments # <<>>
  /\ Len(prog.statements) = 2
  /\ solver_indexer # <<>>
  /\ DOMAIN prog.module_map # {}
  /\ \A i \in 1..4 : LengthAt(i) > 1

\* The statements serialize has taken from the input so far.
Processed == SubSeq(prog.statements, 1, Len(prog.statements) - Len(statements))

\* The distinct solvers of the directives of a sequence, in the order of
\* their first occurrence.
RECURSIVE FirstSeen(_, _)
FirstSeen(ss, acc) ==
  IF ss = <<>> THEN acc
  ELSE LET s == Head(ss)
           new == s.kind = "Directive"
                    /\ \A i \in 1..Len(acc) : acc[i] # s.solver
       IN FirstSeen(Tail(ss), IF new THEN Append(acc, s.solver) ELSE acc)

\* The index (from 0) of a solver in a list that holds it.
IndexIn(ss, s) == (CHOOSE i \in 1..Len(ss) : ss[i] = s) - 1

C15_EncounterOrderNow ==
  /\ solver_indexer = FirstSeen(Processed, <<>>)
  /\ pc \in {"header", "finalize", "done"} =>
       /\ SectionSolvers.ok
       /\ SectionSolvers.val = FirstSeen(prog.statements, <<>>)
       /\ Len(SectionRecords) = Len(prog.statements)
       /\ \A i \in 1..Len(SectionRecords) :
            i <= Len(prog.statements) /\ prog.statements[i].kind = "Directive" =>
              SectionRecords[i].s.solver =
                SolverRef(IndexIn(FirstSeen(prog.statements, <<>>),
                                  prog.statements[i].solver))

C15_IndexKept ==
  /\ Len(solver_indexer') >= Len(solver_indexer)
  /\ \A i \in 1..Len(solver_indexer) :
       i <= Len(solver_indexer') /\ solver_indexer'[i] = solver_indexer[i]

\* C15: after any prefix of the statements the indexer holds the distinct
\* solvers seen so far in the order of their first occurrence (indices
\* 0..n-1); a step never moves or removes a solver already indexed; and the
\* Solvers section lists the solvers in that order, each directive record
\* carrying the index of its solver.
C15_EncounterOrder == [](C15_EncounterOrderNow) /\ [][C15_IndexKept]_vars

\* Solver 'B' met before solver 'A': the list is in encounter order, which
\* is not the order of the names.
C15_Witness ==
  /\ pc = "done"
  /\ solver_indexer = <<SolverVal(66), SolverVal(65)>>
  /\ SectionSolvers.val = <<SolverVal(66), SolverVal(65)>>

\* C18: the header patch stays inside the reserved bytes: it starts at
\* header_start, ends at or before the offset of the Parameters section, and
\* leaves every byte from that offset on as it was.
C18_PatchInsideFiller ==
  /\ pc = "finalize" =>
       /\ wpos = header_start + Len(ProgHeader_write(SerializeHeaderValue))
       /\ wpos <= parameters.offset
  /\ HeaderPatched =>
       Slice(w, parameters.offset, Len(w) - parameters.offset)
         = EncArguments(prog.arguments)
             \o EncStatements(IndexAll(prog.statements, <<>>).out)
             \o EncSolvers(IndexAll(prog.statements, <<>>).solvers)
             \o EncModuleMap(prog.module_map)

\* The header was patched on the target where the filler is no longer than
\* the header written (u64 aligned to 4), under a non-empty payload.
C18_Witness ==
  /\ pc = "finalize"
  /\ u64_align = 4
  /\ wpos = parameters.offset
  /\ parameters.length > 1
  /\ Len(prog.statements) = 2

\* C13: two Parameters with the same (id, private) are equal, feed the same
\* to the hasher and compare as Equal, whatever their spans; two Parameters
\* that differ in id or in private are not equal.
C13_SpanIgnored ==
  cmp.done =>
    /\ (lhs.id = rhs.id /\ lhs.private = rhs.private) =>
         /\ cmp.eq
         /\ cmp.hash_lhs = cmp.hash_rhs
         /\ cmp.partial_cmp = Some("Equal")
    /\ (lhs.id # rhs.id \/ lhs.private # rhs.private) => ~cmp.eq

\* Two parameters with the same id and visibility and two different spans
\* were compared.
C13_Witness ==
  /\ cmp.done
  /\ lhs.id = rhs.id
  /\ lhs.private = rhs.private
  /\ Parameter_get_span(lhs) = Some(1)
  /\ Parameter_get_span(rhs) = Some(2)
  /\ cmp.eq

\* The type tags of the section entries of the source.
SrcTags == [i \in 1..4 |-> LEValue(Slice(src, 8 + 12 + 20 * (i - 1), 4))]

\* C16: the reader finds the sections by their position in the header, not
\* by their type tags: a file whose entries carry other valid tags has its
\* offsets and lengths read as written, and, read with the program's field
\* type, decodes to the program that was written (parameters from entry 0,
\* statements from 1, solvers from 2, module map from 3).
C16_SectionsByPosition ==
  (rpc # "closed" /\ SrcTags \in TagVectors) =>
    /\ rpc \in {"header_ok", "header_err"} =>
         /\ header.kind = "Ok"
         /\ \A i \in 1..4 :
              /\ header.header.sections[i].ty = SrcTags[i]
              /\ header.header.sections[i].offset = OffsetAt(i)
              /\ header.header.sections[i].length = LengthAt(i)
    /\ rpc # "header_err"
    /\ rT = T =>
         LET recs == SectionRecords
         IN /\ rpc # "panic"
            /\ ArgumentsEq(deserialized_p.arguments, prog.arguments)
            /\ deserialized_p.solvers = solver_indexer
            /\ deserialized_p.module_map = prog.module_map
            /\ deserialized_p.return_count = prog.return_count
            /\ \A i \in 1..Len(yielded) : i <= Len(recs) /\ yielded[i] = recs[i]
            /\ Drained => yielded = recs /\ Len(yielded) = Len(prog.statements)

\* A file whose entries are tagged Constraints, Solvers, Modules, Parameters
\* was read to the end: arguments, two statements, a solver, a module map.
C16_Witness ==
  /\ Drained
  /\ SrcTags = <<2, 3, 4, 1>>
  /\ Len(yielded) = 2
  /\ deserialized_p.arguments # <<>>
  /\ deserialized_p.solvers # <<>>
  /\ DOMAIN deserialized_p.module_map # {}

\* An eagerly read section of the source does not decode at its offset.
EagerFailure ==
  LET h == header.header
  IN \/ ~DecArguments(src, h.sections[1].offset).ok
     \/ ~DecSolvers(src, h.sections[3].offset).ok
     \/ ~DecModuleMap(src, h.sections[4].offset).ok

\* C17: when the Parameters, the Solvers or the Modules section cannot be
\* decoded at its offset, ProgIterator::read panics: it returns no program,
\* not even the parts it had decoded, and no statement is ever yielded.
C17_EagerFailureIsFatal ==
  /\ (rT # "none" /\ header.kind = "Ok" /\ EagerFailure) =>
       /\ rpc = "panic"
       /\ deserialized_p = NoProgram
       /\ yielded = <<>>
  /\ rpc = "panic" => deserialized_p = NoProgram /\ yielded = <<>>

\* A read with the right field type panicked on the module map, after the
\* parameters and the solvers had been decoded.
C17_Witness ==
  /\ rpc = "panic"
  /\ rT = T
  /\ seeks = 3
  /\ DecArguments(src, header.header.sections[1].offset).ok
  /\ DecSolvers(src, header.header.sections[3].offset).ok
  /\ Len(prog.statements) = 2

\* The position of the first record of the stream that fails to decode, from
\* pos on; -1 when the source ends before any does.
RECURSIVE FirstFailure(_, _)
FirstFailure(buf, pos) ==
  IF ByteAt(buf, pos) = -1 THEN -1
  ELSE LET d == DecStatement(buf, pos)
       IN IF d.ok THEN FirstFailure(buf, d.pos) ELSE pos

\* C12: a record of the constraint stream that fails to decode ends the lazy
\* sequence: the pull that meets it returns None without panicking, the
\* records before it have been yielded in order, and no pull, then or later,
\* yields a record that lies after it.
C12_FailureEndsSequence ==
  rpc \in {"iter", "stopped", "eof"} =>
    LET start == header.header.sections[2].offset
        failed == FirstFailure(src, start)
    IN failed >= 0 =>
         /\ \A i \in 1..Len(yielded) : yielded[i].at < failed
         /\ rpos >= failed => yielded = DecodeRecords(src, start, failed)

\* The file as serialize writes it before the header is patched.
UnpatchedFile ==
  LET indexed == IndexAll(prog.statements, <<>>)
  IN ZOKRATES_MAGIC \o FILE_VERSION \o Zeros(SizeOfProgHeader(u64_align))
       \o EncArguments(prog.arguments) \o EncStatements(indexed.out)
       \o EncSolvers(indexed.solvers) \o EncModuleMap(prog.module_map)

\* C19: when a write fails before the header patch, serialize returns that
\* error and writes nothing more: the sink holds a proper prefix of the
\* unpatched file, so its header region holds zero filler and nothing else;
\* and ProgHeader::read on that sink returns no header: it fails on a short
\* read, or on the section type tag 0 of the filler.
C19_InterruptedWriteRejected ==
  /\ result = ErrIo <=> pc = "failed"
  /\ pc = "failed" =>
       /\ Len(w) < Len(UnpatchedFile)
       /\ w = SubSeq(UnpatchedFile, 1, Len(w))
       /\ wpos = Len(w)
       /\ \A i \in 1..Len(w) : (i > 8 /\ i <= 8 + 92) => w[i] = 0
       /\ ProgHeader_read(w).kind \in {"UnexpectedEof", "InvalidData"}
       /\ ProgHeader_read(w).kind = "InvalidData" =>
            /\ Len(w) >= 8 + 12 + 4
            /\ LEValue(Slice(w, 8 + 12, 4)) = 0
       /\ HeaderReturned => rpc = "header_err" /\ header.header = NoHeader

\* The write of the second statement failed: the sink holds the whole zero
\* filler, the parameters and a record, and the read stopped at tag 0.
C19_Witness ==
  /\ pc = "failed"
  /\ rpc = "header_err"
  /\ header.kind = "InvalidData"
  /\ Len(statements) = 1
  /\ Len(prog.statements) = 2
  /\ Len(w) > 8 + SizeOfProgHeader(u64_align) + Len(EncArguments(prog.arguments))

====
